---- MODULE Spec2Model ----
(***************************************************************************)
(* Model of imv's asynchronous image loader (src/loader.c).                *)
(*                                                                         *)
(* One control thread calls imv_loader_load, imv_loader_time_passed,       *)
(* imv_loader_load_next_frame, imv_loader_time_left and imv_loader_free.   *)
(* Every load and every frame advance creates a pthread running            *)
(* bg_new_img or bg_next_frame.  Each thread is modelled by a program      *)
(* counter; a step is one lock-protected section or one codec call made    *)
(* outside the lock.                                                       *)
(*                                                                         *)
(* Time is counted in ticks of 0.0001 s, so that both scale factors the    *)
(* code uses (0.0001 and 0.001 seconds per millisecond unit) are integers. *)
(***************************************************************************)
EXTENDS Integers, Sequences, FiniteSets, TLC

\* ---------------------------------------------------------------- bounds
\* calls of imv_loader_load the control thread makes
MaxLoads == 2
\* calls of imv_loader_time_passed the control thread makes
MaxTicks == 2
\* direct calls of imv_loader_load_next_frame the control thread makes
MaxAdvances == 1
\* pages of the animated test file
AnimFrames == 3

\* ------------------------------------------------- the codec's test files
\* A file is named by its path; a stdin buffer holds the bytes of one of them.
FilePaths == {"anim.gif", "loop.gif", "one.gif", "still.png", "junk.bin"}
Buffers == {"anim.gif", "junk.bin", "trunc.png"}
Stdin == "-"
NoPath == ""
NoBuffer == ""

\* time_passed arguments, in ticks (0.005 s and 0.15 s)
Dts == {50, 1500}

\* FreeImage_GetFileType / FreeImage_GetFileTypeFromMemory
FreeImage_GetFileType(c) ==
  CASE c = "anim.gif" -> "GIF"
    [] c = "loop.gif" -> "GIF"
    [] c = "one.gif" -> "GIF"
    [] c = "still.png" -> "PNG"
    [] c = "trunc.png" -> "PNG"
    [] OTHER -> "UNKNOWN"

\* whether FreeImage_OpenMultiBitmap / FreeImage_Load succeed on the bytes
Decodable(c) == c \in {"anim.gif", "loop.gif", "one.gif", "still.png"}

\* FreeImage_GetPageCount
FreeImage_GetPageCount(c) ==
  IF c \in {"anim.gif", "loop.gif"} THEN AnimFrames ELSE 1

\* value of the FrameTime tag of page i in milliseconds; -1: the tag is absent
FrameTimeTag(c, i) ==
  IF c = "one.gif" THEN -1
  ELSE CASE i % 3 = 0 -> 100
         [] i % 3 = 1 -> 0
         [] OTHER -> -1

\* value of the DisposalMethod tag of page i; -1: the tag is absent
DisposalTag(c, i) ==
  IF c = "loop.gif"
  THEN CASE i % 4 = 0 -> 1
         [] i % 4 = 1 -> 2
         [] i % 4 = 2 -> -1
         [] OTHER -> 0
  ELSE CASE i % 4 = 0 -> 2
         [] i % 4 = 1 -> 1
         [] i % 4 = 2 -> 3
         [] OTHER -> -1

\* FreeImage_GetWidth / FreeImage_GetHeight of page i (odd pages are inset)
PageWidth(c, i) == IF i % 2 = 1 THEN 2 ELSE 4
PageHeight(c, i) == IF i % 2 = 1 THEN 1 ELSE 3

\* ------------------------------------------------------------ the handles
\* FIBITMAP: src the file decoded, layers the pages composited into it
\* (bottom first), w and h its dimensions.  NoBmp is the NULL pointer.
NoBmp == [src |-> "", layers |-> <<>>, w |-> 0, h |-> 0]
\* FIMULTIBITMAP: src the file, mem the memory handle it reads from (0: a
\* file).  NoMbmp is the NULL pointer.
NoMbmp == [src |-> "", mem |-> 0]

VARIABLES
  ldr,       \* struct imv_loader
  workers,   \* the threads created so far, by thread id (1, 2, ...)
  mem,       \* FIMEMORY handles that are open: handle h was opened by thread h
  events,    \* the SDL event queue, oldest first
  ctl,       \* the control thread: its position and the calls it has made
  staticTick,\* the last time_passed call saw num_frames = 1, no install since
  crashed    \* a thread read freed memory and the process died of it

vars == <<ldr, workers, mem, events, ctl, staticTick, crashed>>

Threads == 1..Len(workers)
Alive(w) == workers[w].pc # "done"

\* the fields of the loader a consumer sees
Display(l) == [mbmp |-> l.mbmp, bmp |-> l.bmp, width |-> l.width,
               height |-> l.height, cur_frame |-> l.cur_frame,
               next_frame |-> l.next_frame, num_frames |-> l.num_frames,
               frame_time |-> l.frame_time]

\* imv_loader_create: memset(ldr, 0, ...)
imv_loader_create ==
  [lock |-> 0, bg_thread |-> 0, path |-> NoPath, buffer |-> NoBuffer,
   fi_buffer |-> 0, mbmp |-> NoMbmp, bmp |-> NoBmp, width |-> 0, height |-> 0,
   cur_frame |-> 0, next_frame |-> 0, num_frames |-> 0, frame_time |-> 0]

Init ==
  /\ ldr = imv_loader_create
  /\ workers = <<>>
  /\ mem = <<>>
  /\ events = <<>>
  /\ ctl = [pc |-> "idle", loads |-> 0, ticks |-> 0, advances |-> 0]
  /\ staticTick = FALSE
  /\ crashed = FALSE

\* a thread as pthread_create leaves it; for the properties, req and snap
\* record the request it was created for and the display at that time,
\* disturbed whether time_passed or load_next_frame has been called since, nev
\* the events it has pushed
NewThread(kind, req) ==
  [kind |-> kind, pc |-> IF kind = "new" THEN "start" ELSE "nf_lock",
   cancelled |-> FALSE, detached |-> FALSE, req |-> req,
   path |-> Stdin, from_stdin |-> FALSE, fmt |-> "UNKNOWN",
   mbmp |-> NoMbmp, bmp |-> NoBmp, image |-> NoBmp,
   num_frames |-> 1, raw_frame_time |-> 0, width |-> 0, height |-> 0,
   nev |-> 0, outcome |-> "none", snap |-> Display(ldr), disturbed |-> FALSE]

\* a thread that has returned: its stack is gone; outcome records, for the
\* properties, how it ended
Returned(t, outcome) ==
  [t EXCEPT !.pc = "done", !.outcome = outcome,
            !.path = Stdin, !.from_stdin = FALSE, !.fmt = "UNKNOWN",
            !.mbmp = NoMbmp, !.bmp = NoBmp, !.image = NoBmp,
            !.num_frames = 1, !.raw_frame_time = 0, !.width = 0, !.height = 0]

\* ------------------------------------------------------ the control thread
Idle == ~crashed /\ ctl.pc = "idle"

\* FreeImage_CloseMemory(h): closing NULL does nothing
FreeImage_CloseMemory(h) == [x \in DOMAIN mem \ {h} |-> mem[x]]

\* pthread_kill(t, SIGUSR1); pthread_detach(t): the signal stays pending on a
\* live thread, which has SIGUSR1 blocked; a terminated thread gets nothing
CancelAndDetach(t) ==
  IF t = 0 THEN workers
  ELSE [workers EXCEPT ![t].cancelled = Alive(t), ![t].detached = TRUE]

\* imv_loader_load waiting for the thread it supersedes, as
\* imv_loader_load_next_frame does, instead of detaching it
imv_loader_load_joining(p, b) ==
  /\ Idle
  /\ ctl.loads < MaxLoads
  /\ ldr.lock = 0
  /\ IF ldr.bg_thread = 0 THEN TRUE ELSE ~Alive(ldr.bg_thread)
  /\ LET closing == p # Stdin /\ ldr.fi_buffer # 0
         l1 == [ldr EXCEPT !.path = p,
                           !.buffer = IF p = Stdin THEN b ELSE @,
                           !.fi_buffer = IF closing THEN 0 ELSE @]
     IN /\ mem' = IF closing THEN FreeImage_CloseMemory(ldr.fi_buffer) ELSE mem
        /\ workers' = Append(CancelAndDetach(ldr.bg_thread), NewThread("new", p))
        /\ ldr' = [l1 EXCEPT !.bg_thread = Len(workers) + 1]
  /\ ctl' = [ctl EXCEPT !.loads = @ + 1]
  /\ UNCHANGED <<events, staticTick, crashed>>

\* imv_loader_load(ldr, p, b, size), all of it under the lock
imv_loader_load(p, b) ==
  /\ Idle
  /\ ctl.loads < MaxLoads
  /\ ldr.lock = 0
  /\ LET closing == p # Stdin /\ ldr.fi_buffer # 0
         l1 == [ldr EXCEPT !.path = p,
                           !.buffer = IF p = Stdin THEN b ELSE @,
                           !.fi_buffer = IF closing THEN 0 ELSE @]
     IN /\ mem' = IF closing THEN FreeImage_CloseMemory(ldr.fi_buffer) ELSE mem
        /\ workers' = Append(CancelAndDetach(ldr.bg_thread), NewThread("new", p))
        /\ ldr' = [l1 EXCEPT !.bg_thread = Len(workers) + 1]
  /\ ctl' = [ctl EXCEPT !.loads = @ + 1]
  /\ UNCHANGED <<events, staticTick, crashed>>

\* the else branch of line 147 left out
FrameTimeAfterNoReset(l, dt) ==
  IF l.num_frames > 1 THEN l.frame_time - dt ELSE l.frame_time

\* lines 142-149: frame_time after dt ticks have passed
FrameTimeAfter(l, dt) == IF l.num_frames > 1 THEN l.frame_time - dt ELSE 0

\* lines 142-146: whether the call goes on to imv_loader_load_next_frame
GetFrame(l, dt) == l.num_frames > 1 /\ l.frame_time - dt < 0

\* imv_loader_time_passed(ldr, dt): the locked section; the call of
\* imv_loader_load_next_frame it ends with is the control thread at "join"
imv_loader_time_passed(dt) ==
  /\ Idle
  /\ ctl.ticks < MaxTicks
  /\ ldr.lock = 0
  /\ ldr' = [ldr EXCEPT !.frame_time = FrameTimeAfter(ldr, dt)]
  /\ ctl' = [ctl EXCEPT !.ticks = @ + 1,
                        !.pc = IF GetFrame(ldr, dt) THEN "join" ELSE "idle"]
  /\ staticTick' = (ldr.num_frames = 1)
  /\ workers' = [w \in Threads |-> [workers[w] EXCEPT !.disturbed = TRUE]]
  /\ UNCHANGED <<mem, events, crashed>>

\* pthread_join left out
JoinableWithoutJoin(t) == TRUE

\* pthread_join(t) returns
Joinable(t) == IF t = 0 THEN TRUE ELSE ~Alive(t)

\* lines 129-135: join the thread in bg_thread, then create the next one
LoadNextFrame ==
  /\ Joinable(ldr.bg_thread)
  /\ workers' = Append([w \in Threads |-> [workers[w] EXCEPT !.disturbed = TRUE]],
                       NewThread("next", ldr.path))
  /\ ldr' = [ldr EXCEPT !.bg_thread = Len(workers) + 1]
  /\ UNCHANGED <<mem, events, staticTick, crashed>>

\* imv_loader_load_next_frame as imv_loader_time_passed calls it (line 153)
imv_loader_load_next_frame ==
  /\ ~crashed
  /\ ctl.pc = "join"
  /\ LoadNextFrame
  /\ ctl' = [ctl EXCEPT !.pc = "idle"]

\* imv_loader_load_next_frame called by the caller itself
AdvanceCall ==
  /\ Idle
  /\ ctl.advances < MaxAdvances
  /\ LoadNextFrame
  /\ ctl' = [ctl EXCEPT !.advances = @ + 1]

\* imv_loader_time_left: an unlocked read of frame_time
imv_loader_time_left == ldr.frame_time

\* imv_loader_free: join the thread in bg_thread, then release everything
imv_loader_free ==
  /\ Idle
  /\ Joinable(ldr.bg_thread)
  /\ ctl' = [ctl EXCEPT !.pc = "freed"]
  /\ UNCHANGED <<ldr, workers, mem, events, staticTick, crashed>>

\* a thread that outlives imv_loader_free works on a destroyed mutex and freed
\* memory: it may go on as if nothing happened (its ordinary steps below) or
\* bring the process down
UseAfterFree(w) ==
  /\ ~crashed
  /\ ctl.pc = "freed"
  /\ Alive(w)
  /\ crashed' = TRUE
  /\ UNCHANGED <<ldr, workers, mem, events, ctl, staticTick>>

\* ------------------------------------------------------------- bg_new_img
Runs(w, pc) == ~crashed /\ w \in Threads /\ workers[w].pc = pc

\* is_thread_cancelled(): SIGUSR1 is pending on the calling thread
is_thread_cancelled(w) == workers[w].cancelled

\* SDL_PushEvent; by and cancelled record, for the properties, the thread that
\* pushed the event and whether it had been signalled by then
PushEvent(w, type, code, bmp, path) ==
  Append(events, [type |-> type, code |-> code, bmp |-> bmp, path |-> path,
                  by |-> w, cancelled |-> workers[w].cancelled])

\* lines 170-175: copy the loader's path under the lock
bg_new_img_start(w) ==
  /\ Runs(w, "start")
  /\ ldr.lock = 0
  /\ workers' = [workers EXCEPT ![w].from_stdin = (ldr.path = Stdin),
                                ![w].path = ldr.path,
                                ![w].pc = IF ldr.path = Stdin THEN "detect"
                                          ELSE "decode"]
  /\ UNCHANGED <<ldr, mem, events, ctl, staticTick, crashed>>

\* the bytes behind memory handle h; NoBuffer for NULL
Bytes(h) == IF h \in DOMAIN mem THEN mem[h] ELSE NoBuffer

\* FreeImage_OpenMultiBitmap / FreeImage_LoadMultiBitmapFromMemory(FIF_GIF, ..)
OpenMulti(c, h) ==
  IF Decodable(c) /\ FreeImage_GetFileType(c) = "GIF"
  THEN [src |-> c, mem |-> h] ELSE NoMbmp

\* FreeImage_Load / FreeImage_LoadFromMemory
LoadImage(c) ==
  IF Decodable(c)
  THEN [src |-> c, layers |-> <<0>>, w |-> PageWidth(c, 0), h |-> PageHeight(c, 0)]
  ELSE NoBmp

\* lines 231-235: the duration of the first frame
FirstFrameTime(tag) == IF tag # -1 THEN tag ELSE 100

\* lines 221-236: page count, first page and its duration, read from source m
Page0(t, m) ==
  [t EXCEPT !.mbmp = m,
            !.num_frames = FreeImage_GetPageCount(m.src),
            !.width = PageWidth(m.src, 0),
            !.height = PageHeight(m.src, 0),
            !.bmp = [src |-> m.src, layers |-> <<0>>,
                     w |-> PageWidth(m.src, 0), h |-> PageHeight(m.src, 0)],
            !.raw_frame_time = FirstFrameTime(FrameTimeTag(m.src, 0)),
            !.pc = "final"]

\* lines 184-250 for a file: every codec call the thread makes on its own copy
\* of the path, up to its next use of the loader
DecodeFile(t) ==
  LET fmt == FreeImage_GetFileType(t.path)
      m == OpenMulti(t.path, 0)
      i == LoadImage(t.path)
  IN CASE fmt = "UNKNOWN" -> [t EXCEPT !.fmt = fmt, !.pc = "err_unk"]
       [] fmt = "GIF" /\ m = NoMbmp -> [t EXCEPT !.fmt = fmt, !.pc = "err_open"]
       [] fmt = "GIF" /\ m # NoMbmp -> Page0([t EXCEPT !.fmt = fmt], m)
       [] fmt # "GIF" /\ i = NoBmp -> [t EXCEPT !.fmt = fmt, !.pc = "err_load"]
       [] OTHER -> [t EXCEPT !.fmt = fmt, !.image = i, !.pc = "chk_cancel"]

bg_new_img_decode(w) ==
  /\ Runs(w, "decode")
  /\ workers' = [workers EXCEPT ![w] = DecodeFile(workers[w])]
  /\ UNCHANGED <<ldr, mem, events, ctl, staticTick, crashed>>

\* where the thread goes once the format of the buffer is known (lines 186, 203)
AfterDetect(fmt) ==
  CASE fmt = "UNKNOWN" -> "unk_close"
    [] fmt = "GIF" -> "open"
    [] OTHER -> "load"

\* lines 179-182: open the memory handle and sniff the format, under the lock
bg_new_img_detect(w) ==
  /\ Runs(w, "detect")
  /\ ldr.lock = 0
  /\ ldr' = [ldr EXCEPT !.fi_buffer = w]
  /\ mem' = (w :> ldr.buffer) @@ mem
  /\ workers' = [workers EXCEPT
       ![w].fmt = FreeImage_GetFileType(ldr.buffer),
       ![w].pc = AfterDetect(FreeImage_GetFileType(ldr.buffer))]
  /\ UNCHANGED <<events, ctl, staticTick, crashed>>

\* lines 188-191 and 253-256: close whatever handle the loader holds now
CloseLoaderMemory(w) ==
  /\ ldr.lock = 0
  /\ mem' = FreeImage_CloseMemory(ldr.fi_buffer)
  /\ ldr' = [ldr EXCEPT !.fi_buffer = 0]
  /\ UNCHANGED <<events, ctl, staticTick, crashed>>

\* lines 188-191
bg_new_img_unk_close(w) ==
  /\ Runs(w, "unk_close")
  /\ CloseLoaderMemory(w)
  /\ workers' = [workers EXCEPT ![w].pc = "err_unk"]

\* lines 253-257
bg_new_img_fail_close(w) ==
  /\ Runs(w, "fail_close")
  /\ CloseLoaderMemory(w)
  /\ workers' = [workers EXCEPT ![w] = Returned(@, "failed")]

\* the path error_occurred reports (line 425)
ErrPath(w) == ldr.path

\* error_occurred returning without SDL_PushEvent
error_occurred_silent(w) ==
  /\ ldr.lock = 0
  /\ UNCHANGED <<events, ldr, mem, ctl, staticTick, crashed>>

\* error_occurred (lines 422-433): copy the path under the lock, push the event
error_occurred(w) ==
  /\ ldr.lock = 0
  /\ events' = PushEvent(w, "bad_image", 0, NoBmp, ErrPath(w))
  /\ UNCHANGED <<ldr, mem, ctl, staticTick, crashed>>

\* lines 193-194
bg_new_img_err_unk(w) ==
  /\ Runs(w, "err_unk")
  /\ error_occurred(w)
  /\ workers' = [workers EXCEPT ![w] = Returned([@ EXCEPT !.nev = @ + 1], "failed")]

\* lines 217-218
bg_new_img_err_open(w) ==
  /\ Runs(w, "err_open")
  /\ error_occurred(w)
  /\ workers' = [workers EXCEPT ![w] = Returned([@ EXCEPT !.nev = @ + 1], "failed")]

\* line 252
bg_new_img_err_load(w) ==
  /\ Runs(w, "err_load")
  /\ error_occurred(w)
  /\ workers' = [workers EXCEPT ![w].pc = "fail_close", ![w].nev = @ + 1]

\* line 205: the buffer's multi-page source is opened holding the lock
bg_new_img_open(w) ==
  /\ Runs(w, "open")
  /\ ldr.lock = 0
  /\ ldr' = [ldr EXCEPT !.lock = w]
  /\ workers' = [workers EXCEPT ![w].pc = "open_locked"]
  /\ UNCHANGED <<mem, events, ctl, staticTick, crashed>>

\* lines 206-208: the open from the loader's memory handle
bg_new_img_open_locked(w) ==
  /\ Runs(w, "open_locked")
  /\ LET m == OpenMulti(Bytes(ldr.fi_buffer), ldr.fi_buffer)
     IN workers' = [workers EXCEPT ![w].mbmp = m,
          ![w].pc = IF m = NoMbmp THEN "err_open" ELSE "page0"]
  /\ ldr' = [ldr EXCEPT !.lock = 0]
  /\ UNCHANGED <<mem, events, ctl, staticTick, crashed>>

\* the multi-page source reads from a memory handle that has been closed
Stale(m) == m.mem # 0 /\ m.mem \notin DOMAIN mem

\* lines 221-236 for a source opened from memory
bg_new_img_page0(w) ==
  /\ Runs(w, "page0")
  /\ workers' = [workers EXCEPT ![w] = Page0(workers[w], workers[w].mbmp)]
  /\ UNCHANGED <<ldr, mem, events, ctl, staticTick, crashed>>

\* line 245: the buffer's single image is decoded holding the lock
bg_new_img_load(w) ==
  /\ Runs(w, "load")
  /\ ldr.lock = 0
  /\ ldr' = [ldr EXCEPT !.lock = w]
  /\ workers' = [workers EXCEPT ![w].pc = "load_locked"]
  /\ UNCHANGED <<mem, events, ctl, staticTick, crashed>>

\* lines 246-247: the decode from the loader's memory handle
bg_new_img_load_locked(w) ==
  /\ Runs(w, "load_locked")
  /\ LET i == LoadImage(Bytes(ldr.fi_buffer))
     IN workers' = [workers EXCEPT ![w].image = i,
          ![w].pc = IF i = NoBmp THEN "err_load" ELSE "chk_cancel"]
  /\ ldr' = [ldr EXCEPT !.lock = 0]
  /\ UNCHANGED <<mem, events, ctl, staticTick, crashed>>

\* lines 260-269: the first cancellation check, then the conversion.  bmp is
\* still NULL at lines 266-267, and FreeImage_GetWidth(NULL) is 0
bg_new_img_chk_cancel(w) ==
  /\ Runs(w, "chk_cancel")
  /\ workers' = IF is_thread_cancelled(w)
       THEN [workers EXCEPT ![w] = Returned(@, "dropped")]
       ELSE [workers EXCEPT ![w].width = NoBmp.w, ![w].height = NoBmp.h,
                            ![w].bmp = workers[w].image, ![w].image = NoBmp,
                            ![w].pc = "final"]
  /\ UNCHANGED <<ldr, mem, events, ctl, staticTick, crashed>>

\* line 303: raw_frame_time * 0.0001 seconds, which is raw_frame_time ticks
InstallFrameTime(raw) == raw * 1

\* lines 287-303: the loader with this thread's result installed
Install(w) ==
  [ldr EXCEPT !.mbmp = workers[w].mbmp, !.bmp = workers[w].bmp,
              !.width = workers[w].width, !.height = workers[w].height,
              !.cur_frame = 0, !.next_frame = 1,
              !.num_frames = workers[w].num_frames,
              !.frame_time = InstallFrameTime(workers[w].raw_frame_time)]

\* the last cancellation check left out
FinalCheckSkipped(w) == FALSE

\* line 276: the last cancellation check, made under the lock
FinalCheck(w) == is_thread_cancelled(w)

\* lines 272-314: under the lock, give up if cancelled, else install and report
bg_new_img_final(w) ==
  /\ Runs(w, "final")
  /\ ldr.lock = 0
  /\ IF FinalCheck(w)
     THEN /\ workers' = [workers EXCEPT ![w] = Returned(@, "discarded")]
          /\ UNCHANGED <<ldr, events, staticTick>>
     ELSE /\ ldr' = Install(w)
          /\ events' = PushEvent(w, "new_image", 1, workers[w].bmp, NoPath)
          /\ workers' = [workers EXCEPT
               ![w] = Returned([@ EXCEPT !.nev = @ + 1], "installed")]
          /\ staticTick' = FALSE
  /\ UNCHANGED <<mem, ctl, crashed>>

\* ----------------------------------------------------------- bg_next_frame
\* line 321: take the lock, kept to the end of the body
bg_next_frame_lock(w) ==
  /\ Runs(w, "nf_lock")
  /\ ldr.lock = 0
  /\ ldr' = [ldr EXCEPT !.lock = w]
  /\ workers' = [workers EXCEPT ![w].pc = "nf_body"]
  /\ UNCHANGED <<mem, events, ctl, staticTick, crashed>>

\* lines 340-345: the disposal method of page cur; page 0 never has one
DisposalMethod(c, cur) ==
  IF cur > 0 /\ DisposalTag(c, cur) # -1 THEN DisposalTag(c, cur) ELSE 0

\* lines 363-365 left out: a duration of 0 ms is added as it is
NextFrameTimeNoDefault(c, cur) ==
  (IF FrameTimeTag(c, cur) # -1 THEN FrameTimeTag(c, cur) ELSE 0) * 10

\* lines 357-366: ticks added for page cur; no tag or 0 ms counts as 100 ms
NextFrameTime(c, cur) ==
  LET t == IF FrameTimeTag(c, cur) # -1 THEN FrameTimeTag(c, cur) ELSE 0
  IN (IF t = 0 THEN 100 ELSE t) * 10

\* lines 337, 370-377: the page at 32 bits, expanded to the loader's size
Frame32(l, cur) ==
  LET c == l.mbmp.src
      inset == l.width # PageWidth(c, cur) \/ l.height # PageHeight(c, cur)
  IN [src |-> c, layers |-> <<cur>>,
      w |-> IF inset THEN l.width ELSE PageWidth(c, cur),
      h |-> IF inset THEN l.height ELSE PageHeight(c, cur)]

\* every disposal method rendering the page directly
NextCanvasAlwaysDirect(l, cur) == Frame32(l, cur)

\* lines 379-409: the canvas after the disposal switch
NextCanvas(l, cur) ==
  LET f == Frame32(l, cur)
      d == DisposalMethod(l.mbmp.src, cur)
  IN IF d \in {0, 1} /\ l.bmp # NoBmp /\ cur > 0
     THEN [f EXCEPT !.layers = l.bmp.layers \o <<cur>>]
     ELSE f

\* lines 334-335: the frame indices after an advance
NextIndices(l) ==
  [cur |-> l.next_frame, next |-> (l.next_frame + 1) % l.num_frames]

\* lines 322-419: the whole advance, made holding the lock
bg_next_frame_body(w) ==
  /\ Runs(w, "nf_body")
  /\ IF ldr.num_frames < 2
     THEN /\ ldr' = [ldr EXCEPT !.lock = 0]
          /\ workers' = [workers EXCEPT ![w] = Returned(@, "static")]
          /\ UNCHANGED events
     ELSE LET ix == NextIndices(ldr)
              canvas == NextCanvas(ldr, ix.cur)
          IN /\ ldr' = [ldr EXCEPT !.cur_frame = ix.cur, !.next_frame = ix.next,
                          !.frame_time = @ + NextFrameTime(ldr.mbmp.src, ix.cur),
                          !.bmp = canvas, !.lock = 0]
             /\ events' = PushEvent(w, "new_image", 0, canvas, NoPath)
             /\ workers' = [workers EXCEPT
                  ![w] = Returned([@ EXCEPT !.nev = @ + 1], "advanced")]
  /\ UNCHANGED <<mem, ctl, staticTick, crashed>>

\* FreeImage_LockPage on a source whose memory handle has been closed reads
\* freed memory: the thread may go on (its ordinary step) or crash here
StaleMemoryRead(w) ==
  /\ \/ Runs(w, "page0") /\ Stale(workers[w].mbmp)
     \/ Runs(w, "nf_body") /\ ldr.num_frames >= 2 /\ Stale(ldr.mbmp)
  /\ crashed' = TRUE
  /\ UNCHANGED <<ldr, workers, mem, events, ctl, staticTick>>

\* ------------------------------------------------------------ the system
\* one step of thread w
ThreadStep(w) ==
  \/ bg_new_img_start(w)
  \/ bg_new_img_decode(w)
  \/ bg_new_img_detect(w)
  \/ bg_new_img_unk_close(w)
  \/ bg_new_img_err_unk(w)
  \/ bg_new_img_open(w)
  \/ bg_new_img_open_locked(w)
  \/ bg_new_img_err_open(w)
  \/ bg_new_img_page0(w)
  \/ bg_new_img_load(w)
  \/ bg_new_img_load_locked(w)
  \/ bg_new_img_err_load(w)
  \/ bg_new_img_fail_close(w)
  \/ bg_new_img_chk_cancel(w)
  \/ bg_new_img_final(w)
  \/ bg_next_frame_lock(w)
  \/ bg_next_frame_body(w)

\* the system when every frame advance comes from imv_loader_time_passed
TickedNext ==
  \/ \E p \in FilePaths : imv_loader_load(p, NoBuffer)
  \/ \E b \in Buffers : imv_loader_load(Stdin, b)
  \/ \E dt \in Dts : imv_loader_time_passed(dt)
  \/ imv_loader_load_next_frame
  \/ imv_loader_free
  \/ \E w \in Threads : bg_new_img_start(w)
  \/ \E w \in Threads : bg_new_img_decode(w)
  \/ \E w \in Threads : bg_new_img_detect(w)
  \/ \E w \in Threads : bg_new_img_unk_close(w)
  \/ \E w \in Threads : bg_new_img_err_unk(w)
  \/ \E w \in Threads : bg_new_img_open(w)
  \/ \E w \in Threads : bg_new_img_open_locked(w)
  \/ \E w \in Threads : bg_new_img_err_open(w)
  \/ \E w \in Threads : bg_new_img_page0(w)
  \/ \E w \in Threads : bg_new_img_load(w)
  \/ \E w \in Threads : bg_new_img_load_locked(w)
  \/ \E w \in Threads : bg_new_img_err_load(w)
  \/ \E w \in Threads : bg_new_img_fail_close(w)
  \/ \E w \in Threads : bg_new_img_chk_cancel(w)
  \/ \E w \in Threads : bg_new_img_final(w)
  \/ \E w \in Threads : bg_next_frame_lock(w)
  \/ \E w \in Threads : bg_next_frame_body(w)
  \/ \E w \in Threads : UseAfterFree(w)
  \/ \E w \in Threads : StaleMemoryRead(w)

Next == TickedNext \/ AdvanceCall

Spec == Init /\ [][Next]_vars

\* the thread ids the bounds allow
MaxThreads == MaxLoads + MaxTicks + MaxAdvances

\* that system under a scheduler that runs every thread able to take a step
LiveSpec ==
  Init /\ [][TickedNext]_vars /\ \A w \in 1..MaxThreads : WF_vars(ThreadStep(w))

\* ------------------------------------------------------------ properties
AliveThreads == {w \in Threads : Alive(w)}

\* the events pushed by the step from this state to the next
Pushed == {i \in DOMAIN events' : i > Len(events)}

\* thread w takes the step from this state to the next
Steps(w) == w \in Threads /\ workers'[w].pc # workers[w].pc

\* C1 as stated: at no point are two background threads, detached ones
\* included, alive at the same time
C1_AtMostOneThreadAlive == Cardinality(AliveThreads) <= 1

\* C1 amended: every live thread other than the one in bg_thread has been
\* signalled and detached by a later load, so at most one live thread has not
\* been signalled for cancellation
C1_AtMostOneCurrentThread ==
  /\ \A w \in AliveThreads :
       w # ldr.bg_thread => workers[w].cancelled /\ workers[w].detached
  /\ Cardinality({w \in AliveThreads : ~workers[w].cancelled}) <= 1

\* a superseded thread and its successor are both alive
C1_Witness ==
  \E v, w \in AliveThreads :
    v # w /\ workers[v].cancelled /\ w = ldr.bg_thread /\ ~workers[w].cancelled

\* C2: a bg_new_img thread that was signalled before its final cancellation
\* check changes none of mbmp, bmp, width, height, cur_frame, next_frame,
\* num_frames, frame_time and pushes no new-image event
C2_SupersededLoadInstallsNothing ==
  [][\A w \in Threads :
       (workers[w].kind = "new" /\ workers[w].cancelled /\ Steps(w))
       => /\ Display(ldr') = Display(ldr)
          /\ \A i \in Pushed :
               ~(events'[i].by = w /\ events'[i].type = "new_image")]_vars

\* a signalled thread reached the final check with a decoded animation and
\* gave it up, while the loader shows what another thread installed
C2_Witness ==
  \E w \in Threads :
    /\ workers[w].outcome = "discarded"
    /\ ldr.bmp # NoBmp
    /\ \A i \in DOMAIN events : events[i].by # w

\* C3: when imv_loader_free releases the loader, no thread it created is alive
C3_FreeLeavesNoThread == ctl.pc = "freed" => AliveThreads = {}

\* C4: when the thread of a load ends in a failure while an image is installed,
\* and neither time_passed nor load_next_frame was called since that load, the
\* display fields are what they were when the load was called
C4_FailedLoadKeepsDisplay ==
  [][\A w \in Threads :
       (/\ workers[w].kind = "new"
        /\ workers[w].outcome # "failed"
        /\ workers'[w].outcome = "failed"
        /\ ~workers[w].disturbed
        /\ workers[w].snap.bmp # NoBmp)
       => Display(ldr') = workers[w].snap]_vars

\* C5: a bg_new_img thread pushes no event once it has been signalled
C5_CancelledThreadIsSilent ==
  \A i \in DOMAIN events :
    workers[events[i].by].kind = "new" => ~events[i].cancelled

\* C6: a thread whose detection or decode failed has pushed exactly one
\* bad-image event, and every bad-image event carries the path of the request
\* its thread was created for
C6_FailureNamesOwnRequest ==
  /\ \A w \in Threads : workers[w].outcome = "failed" => workers[w].nev = 1
  /\ \A i \in DOMAIN events :
       events[i].type = "bad_image" => events[i].path = workers[events[i].by].req

\* thread w has returned after pushing exactly one event, a new-image event
\* flagged new or a bad-image event
Reported(w) ==
  IF w \in Threads
  THEN /\ workers[w].pc = "done"
       /\ workers[w].outcome \in {"installed", "failed"}
       /\ \E i \in DOMAIN events :
            /\ events[i].by = w
            /\ \/ events[i].type = "new_image" /\ events[i].code = 1
               \/ events[i].type = "bad_image"
            /\ \A j \in DOMAIN events : events[j].by = w => j = i
  ELSE FALSE

\* thread w runs bg_new_img
IsLoad(w) == IF w \in Threads THEN workers[w].kind = "new" ELSE FALSE

\* a later load has signalled thread w
Signalled(w) == IF w \in Threads THEN workers[w].cancelled ELSE FALSE

\* C7: under fair scheduling every bg_new_img thread is signalled by a later
\* load or returns having pushed exactly one event, unless a codec call
\* faults instead of returning
C7_UnsupersededLoadReports ==
  \A w \in 1..MaxThreads :
    IsLoad(w) ~> (crashed \/ Signalled(w) \/ Reported(w))

\* a thread no load superseded has returned with its one event while the
\* control thread went on to a frame advance
C7_Witness ==
  \E w \in Threads :
    /\ IsLoad(w) /\ ~Signalled(w) /\ Reported(w)
    /\ \E v \in Threads : v > w /\ workers[v].kind = "next"

\* C8: after a time_passed call made while num_frames = 1, and until another
\* image is installed, the call has not gone on to load_next_frame and
\* imv_loader_time_left returns 0
C8_StaticImageNeverAdvances ==
  staticTick => /\ ldr.num_frames = 1
                /\ ctl.pc # "join"
                /\ imv_loader_time_left = 0

\* two time_passed calls on an installed single-page GIF, whose frame_time
\* was not 0 when it was installed
C8_Witness ==
  staticTick /\ ctl.ticks = 2 /\ ldr.bmp.src = "one.gif" /\ ldr.num_frames = 1

\* the page on top of a canvas
TopPage(b) == b.layers[Len(b.layers)]

\* the newest bg_new_img thread: the one of the last load
LastLoad == CHOOSE w \in Threads :
  workers[w].kind = "new" /\ \A v \in Threads : workers[v].kind = "new" => v <= w

\* C9: once the thread of the last load has installed an animation, the
\* new-image events from its own on are page 0 flagged new, then pages 1, 2,
\* ..., N-1, 0, ... flagged not new, each pushed by a thread that a
\* load_next_frame call made after that load created
C9_AdvancesFollowTheLoad ==
  \A k \in DOMAIN events :
    (/\ events[k].code = 1
     /\ events[k].by = LastLoad
     /\ FreeImage_GetPageCount(events[k].bmp.src) >= 2)
    => \A i \in DOMAIN events :
         i > k => /\ events[i].type = "new_image"
                  /\ events[i].code = 0
                  /\ TopPage(events[i].bmp) =
                       (i - k) % FreeImage_GetPageCount(events[k].bmp.src)
                  /\ events[i].by > events[k].by

\* the FrameTime tag in milliseconds as the claim reads it
ClaimedMs(tag) == IF tag = -1 \/ tag = 0 THEN 100 ELSE tag

\* C10: a bg_new_img thread that installs an animation whose page 0 lasts d
\* milliseconds sets frame_time to d/1000 seconds (10 ticks per millisecond)
C10_FirstFrameTimeInSeconds ==
  [][\A w \in Threads :
       (/\ workers[w].kind = "new"
        /\ workers'[w].outcome = "installed"
        /\ workers[w].outcome # "installed"
        /\ workers[w].num_frames >= 2)
       => ldr'.frame_time = ClaimedMs(FrameTimeTag(workers[w].mbmp.src, 0)) * 10]_vars

\* thread w returns from an advance by the step from this state to the next
Advances(w) ==
  /\ workers[w].kind = "next"
  /\ workers[w].outcome # "advanced"
  /\ workers'[w].outcome = "advanced"

\* C11: a frame advance on an animation adds the duration of the newly current
\* page, d/1000 seconds (10 ticks per millisecond) with an absent or zero
\* duration counting as 100 ms, to the frame_time it finds, negative or not
C11_AdvanceAddsFrameDuration ==
  [][\A w \in Threads :
       Advances(w)
       => ldr'.frame_time = ldr.frame_time
            + ClaimedMs(FrameTimeTag(ldr.mbmp.src, ldr'.cur_frame)) * 10]_vars

\* an advance to page 1, whose duration tag is 0, was added onto a negative
\* remainder and left it negative
C11_Witness ==
  /\ \E w \in Threads : workers[w].outcome = "advanced"
  /\ ldr.cur_frame = 1
  /\ FrameTimeTag(ldr.mbmp.src, 1) = 0
  /\ ldr.frame_time < 0

\* the positions at which a thread holds the lock across a codec call on the
\* memory buffer or across a frame-advance body
LockedSections == {"open_locked", "load_locked", "nf_body"}

C13_AdvanceAfterEarlierThreads ==
  \A w \in Threads :
    (workers[w].kind = "next" /\ workers[w].pc = "nf_body")
    => \A v \in Threads : v < w => ~Alive(v)

\* C14: a bg_next_frame thread that a load signalled before it took the lock
\* changes none of the display fields and pushes no event
C14_SupersededAdvanceDoesNothing ==
  [][\A w \in Threads :
       (workers[w].kind = "next" /\ workers[w].cancelled /\ Steps(w))
       => /\ Display(ldr') = Display(ldr)
          /\ \A i \in Pushed : events'[i].by # w]_vars

\* the fields of the loader the lock protects
LoaderFields(l) == [l EXCEPT !.lock = 0]

\* C15: no step changes a field of the loader while another thread holds the
\* lock: the writer is the lock holder, or took the free lock for the write
C15_WritesHoldTheLock ==
  [][LoaderFields(ldr') # LoaderFields(ldr)
     => (ldr.lock = 0 \/ Steps(ldr.lock))]_vars

\* C16: once an image is installed, next_frame = (cur_frame + 1) mod num_frames
C16_NextFollowsCur ==
  ldr.num_frames >= 1
  => ldr.next_frame = (ldr.cur_frame + 1) % ldr.num_frames

\* C17: the width and height of the loader are those of page 0 of the installed
\* image and those of the current canvas
C17_SizeIsCanvasSize ==
  ldr.bmp # NoBmp
  => /\ ldr.width = PageWidth(ldr.bmp.src, 0) /\ ldr.width = ldr.bmp.w
     /\ ldr.height = PageHeight(ldr.bmp.src, 0) /\ ldr.height = ldr.bmp.h

\* C18: once a bg_new_img thread has returned without installing, the memory
\* handle it opened is not left open with the loader no longer pointing to it
C18_NothingLeftOpen ==
  \A w \in Threads :
    (/\ workers[w].kind = "new"
     /\ workers[w].pc = "done"
     /\ workers[w].outcome # "installed")
    => ~(w \in DOMAIN mem /\ ldr.fi_buffer # w)

\* the canvas C19 describes for an advance of loader l to page i
ClaimedCanvas(l, i) ==
  LET composite == /\ i > 0
                   /\ l.bmp # NoBmp
                   /\ DisposalTag(l.mbmp.src, i) \in {-1, 0, 1}
  IN [src |-> l.mbmp.src,
      layers |-> IF composite THEN l.bmp.layers \o <<i>> ELSE <<i>>,
      w |-> l.width, h |-> l.height]

C20_MemoryHandleStaysValid ==
  /\ \A w \in Threads :
       workers[w].pc \in {"open", "open_locked", "load", "load_locked"}
       => ldr.fi_buffer = w /\ w \in DOMAIN mem
  /\ ~Stale(ldr.mbmp)

====
